---- MODULE Spec2Model ----
(***************************************************************************)
(* Model of the autonomous-learner cycle engine:                           *)
(*   src/src/continuous-learning-monitor.py  (ContinuousLearningMonitor)   *)
(*   src/src/autonomous-learner.py           (AutonomousLearner)           *)
(*   src/src/github-work-queue.py            (GitHubWorkQueue)             *)
(*                                                                         *)
(* Text is a sequence of chunks; "term in text" (Python substring test)    *)
(* is modelled as "term's chunks occur contiguously in the text".          *)
(***************************************************************************)
EXTENDS Integers, Sequences, FiniteSets, TLC

VARIABLES
    \* ---- process / orchestrator (autonomous-learner.py)
    mode,             \* "single" (main) or "continuous" (run_continuous)
    pc,               \* position of the flow of control
    cycle_count,      \* run_continuous local
    potential_tasks,  \* autonomous_cycle local
    ready_tasks,      \* autonomous_cycle local
    best_task,        \* autonomous_cycle local
    cycle_result,     \* value returned by autonomous_cycle
    \* ---- monitor (continuous-learning-monitor.py)
    seen_items,       \* self.seen_items
    learning_queue,   \* self.learning_queue
    patterns_detected,\* self.patterns_detected
    all_items,        \* run_monitoring_cycle local
    new_items,        \* run_monitoring_cycle local
    patterns,         \* run_monitoring_cycle local
    report,           \* run_monitoring_cycle return value
    \* ---- durable storage
    seen_file,        \* data/seen_items.json
    cycle_files,      \* data/cycles/cycle_*.json
    now,              \* the wall clock, in minutes (datetime.now())
    \* ---- dashboard (deployment/dashboard.py)
    recent_cycles,    \* what get_recent_cycles last returned
    \* ---- external tracker (gh issue ...), per issue number
    labels, assignees, closed, comments,
    \* ---- observation (history) variables
    raw_batch,        \* what the discovery sources returned in this cycle
    deduped_raw,      \* raw batch of the last dedup filter run by this process,
                      \* whether it equals the batch of the run before it, and
                      \* the store as it was before that filter ran
    sleeps,           \* time.sleep calls since the last cycle began
    last_status,      \* how the previous cycle of the loop ended
    last_report,      \* the report this monitor built last (NoReport before the first)
    issue_bodies,     \* the body create_github_issues formatted for each task
    cycle_nums,       \* cycle numbers used so far by run_continuous
    stopped_from,     \* pc at which KeyboardInterrupt was delivered
    total_cycles,     \* cycles begun so far, over all processes
    faults,           \* failures of the environment so far
    calls,            \* work-queue operations called so far
    last_op,          \* last work-queue operation and what it returned
    claimed           \* issue numbers for which claim_task returned True

vars == << mode, pc, cycle_count, potential_tasks, ready_tasks, best_task,
           cycle_result, seen_items, learning_queue, patterns_detected,
           all_items, new_items, patterns, report, seen_file, cycle_files,
           labels, assignees, closed, comments, raw_batch, deduped_raw,
           sleeps, last_status, cycle_nums, stopped_from, total_cycles, faults,
           calls, last_op, claimed, now, recent_cycles, last_report, issue_bodies >>

engine_vars == << mode, pc, cycle_count, potential_tasks, ready_tasks, recent_cycles,
                  best_task, cycle_result, seen_items, learning_queue, last_report,
                  issue_bodies,
                  patterns_detected, all_items, new_items, patterns, report,
                  seen_file, cycle_files, raw_batch, deduped_raw, sleeps,
                  last_status, cycle_nums, stopped_from, total_cycles, faults,
                  now >>

queue_vars == << labels, assignees, closed, comments, calls, last_op, claimed >>

\* ------------------------------------------------------------------ bounds
MaxCycles == 2      \* cycles begun, over all processes
MaxFaults == 1      \* failing calls of the environment (disk, gh)
MaxCalls == 3       \* work-queue operations of one client
MaxItems == 3       \* items of a batch handed to the detector or the prioritizer
MaxThemes == 3      \* top themes of a learning report
MaxStored == 3      \* cycle records on disk when the dashboard is watched

\* --------------------------------------------------------- program constants
BackoffSeconds == 300
CycleIntervalMinutes == 120
TopThemesLimit == 5
ThemeTaskLimit == 2

\* Python None where a work item is expected
None == [ number |-> 0 ]

\* ------------------------------------------------------------ text helpers
RECURSIVE Concat(_)
Concat(ss) == IF ss = << >> THEN << >> ELSE Head(ss) \o Concat(Tail(ss))

\* Python `term in text` for str
Contains(text, term) ==
    \E i \in 1..(Len(text) - Len(term) + 1) :
        SubSeq(text, i, i + Len(term) - 1) = term

LowerChunk(c) ==
    CASE c = "AI" -> "ai"
      [] c = "Recent advances in" -> "recent advances in"
      [] c = "Survey of recent developments in" -> "survey of recent developments in"
      [] c = "Type:" -> "type:"
      [] c = "Priority:" -> "priority:"
      [] c = "PRIORITY:" -> "priority:"
      [] c = "Dependencies:" -> "dependencies:"
      [] c = "Success Criteria:" -> "success criteria:"
      [] c = "Type" -> "type"
      [] c = "Priority" -> "priority"
      [] c = "PRIORITY" -> "priority"
      [] c = "Dependencies" -> "dependencies"
      [] c = "Success" -> "success"
      [] c = "High" -> "high"
      [] c = "Medium" -> "medium"
      [] c = "Low" -> "low"
      [] OTHER -> c

\* str.lower()
Lower(text) == [i \in DOMAIN text |-> LowerChunk(text[i])]

\* chunks of a vocabulary term
Chunks(term) ==
    CASE term = "machine learning" -> << "machine", " ", "learning" >>
      [] term = "ai autonomy" -> << "ai", " ", "autonomy" >>
      [] term = "ai collaboration" -> << "ai", " ", "collaboration" >>
      [] term = "ai governance" -> << "ai", " ", "governance" >>
      [] term = "open source" -> << "open", " ", "source" >>
      [] OTHER -> << term >>

\* dict.get(key, "") on an item
Get(item, key) == IF key \in DOMAIN item THEN item[key] ELSE << >>

\* f"{item.get('title', '')} {item.get('description', '')} {item.get('abstract', '')}"
ItemText(item) ==
    Get(item, "title") \o << " " >> \o Get(item, "description") \o << " " >>
        \o Get(item, "abstract")

\* --------------------------------------------------------------- the monitor
generate_id(source, identifier) == << source, identifier >>

important_terms ==
    << "ai", "machine learning", "autonomous", "distributed", "blockchain",
       "governance", "democracy", "ethics", "embedding", "parallel", "quantum",
       "biology" >>

extract_keywords(text) ==
    SelectSeq(important_terms, LAMBDA term : Contains(Lower(text), Chunks(term)))

Range(seq) == { seq[i] : i \in DOMAIN seq }

\* first occurrences, in order (insertion order of a dict's keys)
RECURSIVE Uniq(_)
Uniq(seq) ==
    IF seq = << >> THEN << >>
    ELSE LET front == Uniq(SubSeq(seq, 1, Len(seq) - 1))
             last == seq[Len(seq)]
         IN IF last \in Range(front) THEN front ELSE Append(front, last)

MaxOf(S) == IF S = {} THEN 0 ELSE CHOOSE m \in S : \A x \in S : x <= m

\* list.sort(key=..., reverse=True): descending and stable
\* (keys[i] is the sort key of seq[i])
RECURSIVE WithKey(_, _, _)
WithKey(seq, keys, k) ==
    IF seq = << >> THEN << >>
    ELSE (IF Head(keys) = k THEN << Head(seq) >> ELSE << >>)
             \o WithKey(Tail(seq), Tail(keys), k)

RECURSIVE SortFrom(_, _, _)
SortFrom(seq, keys, k) ==
    IF k < 0 THEN << >>
    ELSE WithKey(seq, keys, k) \o SortFrom(seq, keys, k - 1)

SortDesc(seq, keys) == SortFrom(seq, keys, MaxOf({ keys[i] : i \in DOMAIN keys }))

\* ---- what the discovery sources can return
\* repositories `gh search repos` can list (already passing the relevance filter
\* of fetch_github_trending); title/abstract are absent from repository items
Repo(name, description) ==
    [ type |-> "github_repo", name |-> name, description |-> description,
      id |-> generate_id("github", name) ]

arxiv_queries ==
    << << "artificial intelligence agents" >>,
       << "autonomous", " ", "AI", " ", "systems" >> >>

ArxivQueryName(q) == IF q = arxiv_queries[1] THEN "artificial intelligence agents"
                     ELSE "autonomous AI systems"

Paper(q) ==
    [ type |-> "arxiv_paper",
      title |-> << "Recent advances in", " " >> \o q,
      abstract |-> << "Survey of recent developments in", " " >> \o q
                      \o << " ", "with focus on practical applications and safety considerations." >>,
      id |-> generate_id("arxiv", ArxivQueryName(q)) ]

\* search_arxiv_papers: the synthetic papers whose id is not yet seen
search_arxiv_papers(seen) ==
    SelectSeq([i \in 1..Len(arxiv_queries) |-> Paper(arxiv_queries[i])],
              LAMBDA paper : paper.id \notin seen)

\* the concatenated results of the three fetch_github_trending calls of a cycle
\* (a failing search yields no repository)
GithubBatches ==
    { << >>,
      << Repo("org/agent", << "autonomous", " ", "AI", " ", "agent" >>) >>,
      << Repo("org/policy", << "AI", " ", "governance", " ", "toolkit" >>),
         Repo("org/mltools", << "ml", " ", "automation" >>),
         Repo("org/policy", << "AI", " ", "governance", " ", "toolkit" >>) >> }

\* ---- dedup filter of run_monitoring_cycle
\* (variant: the membership test is dropped)
FilterNew_NoCheck(items, seen) ==
    [ new |-> items, seen |-> seen \cup { items[i].id : i \in DOMAIN items } ]

\* (variant: the ids of the new items are not added to the store)
FilterNew_NoMark(items, seen) ==
    [ new |-> SelectSeq(items, LAMBDA item : item.id \notin seen), seen |-> seen ]

\* (variant: every item is tested against the store as it was before the batch)
FilterNew_BatchBlind(items, seen) ==
    [ new |-> SelectSeq(items, LAMBDA item : item.id \notin seen),
      seen |-> seen \cup { items[i].id : i \in DOMAIN items } ]

RECURSIVE FilterNew(_, _)
FilterNew(items, seen) ==
    IF items = << >> THEN [new |-> << >>, seen |-> seen]
    ELSE LET item == Head(items)
         IN IF item.id \notin seen
            THEN LET rest == FilterNew(Tail(items), seen \cup { item.id })
                 IN [new |-> << item >> \o rest.new, seen |-> rest.seen]
            ELSE FilterNew(Tail(items), seen)

\* ---- detect_cross_domain_patterns
Keywords(item) == extract_keywords(ItemText(item))

theme_groups(items, theme) ==
    SelectSeq(items, LAMBDA item : theme \in Range(Keywords(item)))

ThemeOrder(items) ==
    Uniq(Concat([i \in 1..Len(items) |-> Keywords(items[i])]))

SourcesOf(items) == { items[i].type : i \in DOMAIN items }

\* (variant: the test of the sources is dropped)
IsCrossDomain_SizeOnly(items, theme) == Len(theme_groups(items, theme)) >= 2

IsCrossDomain(items, theme) ==
    /\ Len(theme_groups(items, theme)) >= 2
    /\ Cardinality(SourcesOf(theme_groups(items, theme))) > 1

MakePattern(items, theme) ==
    [ pattern_type |-> "cross_domain_theme", theme |-> theme,
      sources |-> SourcesOf(theme_groups(items, theme)),
      items |-> theme_groups(items, theme) ]

detect_cross_domain_patterns(items) ==
    LET themes == SelectSeq(ThemeOrder(items), LAMBDA t : IsCrossDomain(items, t))
    IN [i \in 1..Len(themes) |-> MakePattern(items, themes[i])]

\* ---- prioritize_learning_opportunities
AnyIn(terms, text) == \E term \in terms : Contains(text, Chunks(term))

HighPriorityTerms == { "ai autonomy", "ai collaboration", "ai governance" }
MediumPriorityTerms == { "distributed", "democratic", "open source" }
GeneralTerms == { "ai", "machine learning", "llm" }

\* (variant: the three keyword tests form one if/elif chain, general terms first)
Score_GeneralFirst(item) ==
    LET text_lower == Lower(ItemText(item))
    IN (IF AnyIn(GeneralTerms, text_lower) THEN 1
        ELSE IF AnyIn(MediumPriorityTerms, text_lower) THEN 3
        ELSE IF AnyIn(HighPriorityTerms, text_lower) THEN 5 ELSE 0)
       + (IF "type" \in DOMAIN item /\ item.type = "cross_domain_pattern" THEN 2 ELSE 0)

Score(item) ==
    LET text_lower == Lower(ItemText(item))
    IN (IF AnyIn(HighPriorityTerms, text_lower) THEN 5 ELSE 0)
       + (IF AnyIn(MediumPriorityTerms, text_lower) THEN 3 ELSE 0)
       + (IF AnyIn(GeneralTerms, text_lower) THEN 1 ELSE 0)
       + (IF "type" \in DOMAIN item /\ item.type = "cross_domain_pattern" THEN 2 ELSE 0)

\* (variant: the filter on the score is dropped)
prioritize_learning_opportunities_Unfiltered(items) ==
    SortDesc(items, [i \in DOMAIN items |-> Score(items[i])])

prioritize_learning_opportunities(items) ==
    SelectSeq(SortDesc(items, [i \in DOMAIN items |-> Score(items[i])]),
              LAMBDA item : Score(item) > 0)

\* ---- get_top_themes / generate_learning_report
ThemeCount(queue, theme) ==
    Cardinality({ i \in DOMAIN queue : theme \in Range(Keywords(queue[i])) })

get_top_themes(queue) ==
    LET themes == ThemeOrder(queue)
        sorted_themes ==
            SortDesc(themes, [i \in DOMAIN themes |-> ThemeCount(queue, themes[i])])
    IN SubSeq(sorted_themes, 1,
              IF Len(sorted_themes) < TopThemesLimit THEN Len(sorted_themes)
              ELSE TopThemesLimit)

generate_learning_report(queue, detected) ==
    [ new_items |-> Len(queue), patterns_detected |-> Len(detected),
      top_themes |-> get_top_themes(queue) ]

\* ------------------------------------------------- the work queue: parsing
\* An issue body is a sequence of tokens: labels ("Type:"), words, " ", "\n",
\* bullet markers ("-", "*") and other punctuation ("**", "##", "[ ]").
WordTokens ==
    { "High", "high", "Medium", "medium", "Low", "low", "urgent", "research",
      "learning", "synthesis", "general", "setup", "tests", "docs", "done" }

\* the word characters a token starts with ("" when it starts with none)
WordPrefix(t) ==
    CASE t \in WordTokens -> t
      [] t = "Type:" -> "Type"
      [] t = "Priority:" -> "Priority"
      [] t = "PRIORITY:" -> "PRIORITY"
      [] t = "Dependencies:" -> "Dependencies"
      [] t = "Success Criteria:" -> "Success"
      [] t = "Success Criteria" -> "Success"
      [] t = "Investigate patterns detected in learning cycle:" -> "Investigate"
      [] t = "Research recent developments in" -> "Research"
      [] t = "based on monitoring insights" -> "based"
      [] t = "Integrate learnings from" -> "Integrate"
      [] t = "to identify novel connections" -> "to"
      [] t = "Research completed and documented" -> "Research"
      [] t = "Key insights identified and recorded" -> "Key"
      [] t = "Connections to existing work mapped" -> "Connections"
      [] t = "Findings shared via blog post or discussion" -> "Findings"
      [] t = "Auto-generated from autonomous learning cycle at" -> "Auto"
      [] t \in { " ", "\n", ",", "-", "*", "**", "##", "[ ]" } -> ""
      [] OTHER -> t       \* a single word: a heading, a theme, a time stamp

IsWord(t) == WordPrefix(t) # ""        \* \w+ matches at the token's start
IsSpace(t) == t \in { " ", "\n" }      \* \s
StartsWithMarker(t) == t \in { "-", "*", "**" }   \* [-*]

MinOf(S) == CHOOSE m \in S : \A x \in S : m <= x

\* first index >= i holding a token that is not whitespace (Len + 1 if none)
SkipSpaces(body, i) ==
    MinOf({ j \in i..(Len(body) + 1) : j = Len(body) + 1 \/ ~IsSpace(body[j]) })

\* first index >= i holding "\n" (Len + 1 if none)
LineEnd(body, i) ==
    MinOf({ j \in i..(Len(body) + 1) : j = Len(body) + 1 \/ body[j] = "\n" })

\* (variant: whatever follows the label is taken, word or not)
WordMatch_AnyToken(body, label) ==
    LET hits == { i \in DOMAIN body :
                    /\ LowerChunk(body[i]) = label
                    /\ SkipSpaces(body, i + 1) <= Len(body) }
    IN IF hits = {} THEN 0 ELSE SkipSpaces(body, MinOf(hits) + 1)

\* re.search(label + r"\s*(\w+)", body, re.IGNORECASE): index of group 1, or 0
WordMatch(body, label) ==
    LET hits == { i \in DOMAIN body :
                    /\ LowerChunk(body[i]) = label
                    /\ SkipSpaces(body, i + 1) <= Len(body)
                    /\ IsWord(body[SkipSpaces(body, i + 1)]) }
    IN IF hits = {} THEN 0 ELSE SkipSpaces(body, MinOf(hits) + 1)

\* one repetition of (?:[-*]\s*.+\n?) starting at index k: the index after it,
\* or 0 when it does not match there
BulletEnd(body, k) ==
    IF k > Len(body) \/ ~StartsWithMarker(body[k]) THEN 0
    ELSE LET j == SkipSpaces(body, k + 1)
             blanks == { m \in (k + 1)..Len(body) : body[m] = " " /\ m < j }
             \* where .+ starts: inside "**", else after the whitespace, else
             \* (whitespace up to the end of the body) at the last blank
             start == IF body[k] = "**" THEN k
                      ELSE IF j <= Len(body) THEN j
                      ELSE IF blanks # {} THEN MaxOf(blanks)
                      ELSE 0
         IN IF start = 0 THEN 0
            ELSE LET e == LineEnd(body, start)
                 IN IF e <= Len(body) THEN e + 1 ELSE e

RECURSIVE BlockEnd(_, _)
BlockEnd(body, k) ==
    IF BulletEnd(body, k) = 0 THEN k ELSE BlockEnd(body, BulletEnd(body, k))

\* re.search(label + r"\s*\n((?:[-*]\s*.+\n?)+)", body, re.IGNORECASE):
\* the span [first, last] of group 1, or << >>
BlockMatch(body, label) ==
    LET hits == { i \in DOMAIN body :
                    /\ LowerChunk(body[i]) = label
                    /\ SkipSpaces(body, i + 1) > i + 1
                    /\ body[SkipSpaces(body, i + 1) - 1] = "\n"
                    /\ BulletEnd(body, SkipSpaces(body, i + 1)) # 0 }
    IN IF hits = {} THEN << >>
       ELSE LET k == SkipSpaces(body, MinOf(hits) + 1)
            IN << k, BlockEnd(body, k) - 1 >>

\* str.strip() on a token sequence
RECURSIVE LStrip(_)
LStrip(ts) == IF ts # << >> /\ IsSpace(Head(ts)) THEN LStrip(Tail(ts)) ELSE ts

RECURSIVE RStrip(_)
RStrip(ts) ==
    IF ts # << >> /\ IsSpace(ts[Len(ts)]) THEN RStrip(SubSeq(ts, 1, Len(ts) - 1)) ELSE ts

Strip(ts) == RStrip(LStrip(ts))

\* str.lstrip("-*")
RECURSIVE LStripMarkers(_)
LStripMarkers(ts) ==
    IF ts # << >> /\ StartsWithMarker(Head(ts)) THEN LStripMarkers(Tail(ts)) ELSE ts

\* str.split("\n")
RECURSIVE Split(_)
Split(ts) ==
    LET e == LineEnd(ts, 1)
    IN IF e > Len(ts) THEN << ts >>
       ELSE << SubSeq(ts, 1, e - 1) >> \o Split(SubSeq(ts, e + 1, Len(ts)))

\* [line.strip().lstrip("-*").strip() for line in text.strip().split("\n")]
BulletList(body, span) ==
    LET lines == Split(Strip(SubSeq(body, span[1], span[2])))
    IN [i \in 1..Len(lines) |-> Strip(LStripMarkers(Strip(lines[i])))]

parse_task_requirements(body) ==
    LET t == WordMatch(body, "type:")
        p == WordMatch(body, "priority:")
        d == BlockMatch(body, "dependencies:")
        c == BlockMatch(body, "success criteria:")
    IN [ type |-> IF t # 0 THEN LowerChunk(WordPrefix(body[t])) ELSE "general",
         priority |-> IF p # 0 THEN LowerChunk(WordPrefix(body[p])) ELSE "medium",
         dependencies |-> IF d # << >> THEN BulletList(body, d) ELSE << >>,
         success_criteria |-> IF c # << >> THEN BulletList(body, c) ELSE << >> ]

\* ----------------------------------------------- the work queue: selection
\* (variant: the bonus for a task without dependencies is dropped)
TaskScore_NoDependencyBonus(task) ==
    LET requirements == parse_task_requirements(Get(task, "body"))
    IN (IF requirements.priority = "high" THEN 3
        ELSE IF requirements.priority = "medium" THEN 2 ELSE 1)
       + (IF requirements.success_criteria # << >> THEN 1 ELSE 0)

TaskScore(task) ==
    LET requirements == parse_task_requirements(Get(task, "body"))
    IN (IF requirements.priority = "high" THEN 3
        ELSE IF requirements.priority = "medium" THEN 2 ELSE 1)
       + (IF requirements.dependencies = << >> THEN 2 ELSE 0)
       + (IF requirements.success_criteria # << >> THEN 1 ELSE 0)

\* (variant: the last of the tasks with the highest score is returned)
select_best_task_LastOfTies(tasks) ==
    IF tasks = << >> THEN None
    ELSE LET keys == [i \in DOMAIN tasks |-> TaskScore(tasks[i])]
             top == WithKey(tasks, keys, MaxOf(Range(keys)))
         IN top[Len(top)]

select_best_task(tasks) ==
    IF tasks = << >> THEN None
    ELSE SortDesc(tasks, [i \in DOMAIN tasks |-> TaskScore(tasks[i])])[1]

\* ---- what the tracker can list
IssueBodies ==
    << << "Priority:", " ", "High", "\n", "Dependencies:", "\n",
          "-", " ", "setup", "\n", "-", " ", "tests", "\n",
          "Success Criteria:", "\n", "-", " ", "done" >>,
       << >>,
       << "Type:", " ", "research", "\n", "Priority:", " ", "low" >>,
       \* labels followed by something that is no word
       << "Priority:", " ", "**", "\n", "Type:", " ", "##" >>,
       \* a label with nothing after it on its line
       << "Type:", "\n", "Priority:", " ", "High" >>,
       \* a template whose dependency bullet was left empty
       << "Dependencies:", "\n", "-", " ", "\n",
          "Success Criteria:", "\n", "-", " ", "done" >>,
       \* a blank line ends the run of bullets
       << "Success Criteria:", "\n", "*", " ", "done", "\n", "\n", "-", " ", "tests" >>,
       << "PRIORITY:", " ", "urgent" >>,
       << "Dependencies:", "\n", "*", " ", "docs" >> >>

IssueBody(n) == IssueBodies[((n - 1) % Len(IssueBodies)) + 1]

WorkItem(n) == [ number |-> n, body |-> IssueBody(n) ]

Issues == { 1, 2 }

RECURSIVE Descending(_)
Descending(S) ==
    IF S = {} THEN << >> ELSE << MaxOf(S) >> \o Descending(S \ { MaxOf(S) })

\* `gh issue list --label ready-for-work`: the open issues carrying the label,
\* newest first
ListReady(lbls, cls) ==
    LET ns == Descending({ n \in Issues : "ready-for-work" \in lbls[n] /\ ~cls[n] })
    IN [i \in 1..Len(ns) |-> WorkItem(ns[i])]

\* ------------------------------------------------ AutonomousLearner (pure)
FirstN(seq, n) == SubSeq(seq, 1, IF Len(seq) < n THEN Len(seq) ELSE n)

ActionableThemes == { "ai", "autonomous", "governance" }

ResearchTask(learning_report) ==
    [ title |-> << "Analyze", ToString(learning_report.patterns_detected), "cross-domain patterns" >>,
      type |-> "research", priority |-> "medium",
      description |-> << "Investigate patterns", learning_report.top_themes >> ]

\* (variant: every deep dive has priority medium)
LearningTask_Medium(theme) ==
    [ title |-> << "Deep dive into", theme, "developments" >>,
      type |-> "learning",
      priority |-> "medium",
      description |-> << "Research recent developments in", theme >> ]

LearningTask(theme) ==
    [ title |-> << "Deep dive into", theme, "developments" >>,
      type |-> "learning",
      priority |-> IF theme = "autonomous" THEN "high" ELSE "medium",
      description |-> << "Research recent developments in", theme >> ]

SynthesisTask(themes) ==
    [ title |-> << "Synthesize insights across", FirstN(themes, ThemeTaskLimit) >>,
      type |-> "synthesis", priority |-> "high",
      description |-> << "Integrate learnings from", themes[1], themes[2] >> ]

\* (variant: the synthesis task is appended before the deep dives)
process_learning_insights_SynthesisFirst(learning_report) ==
    LET themes == learning_report.top_themes
        focus == SelectSeq(FirstN(themes, ThemeTaskLimit),
                           LAMBDA theme : theme \in ActionableThemes)
    IN (IF learning_report.patterns_detected > 0
        THEN << ResearchTask(learning_report) >> ELSE << >>)
       \o (IF Len(themes) >= 2 THEN << SynthesisTask(themes) >> ELSE << >>)
       \o [i \in 1..Len(focus) |-> LearningTask(focus[i])]

process_learning_insights(learning_report) ==
    LET themes == learning_report.top_themes
        focus == SelectSeq(FirstN(themes, ThemeTaskLimit),
                           LAMBDA theme : theme \in ActionableThemes)
    IN (IF learning_report.patterns_detected > 0
        THEN << ResearchTask(learning_report) >> ELSE << >>)
       \o [i \in 1..Len(focus) |-> LearningTask(focus[i])]
       \o (IF Len(themes) >= 2 THEN << SynthesisTask(themes) >> ELSE << >>)

HighValueTasks(tasks) ==
    SelectSeq(tasks, LAMBDA t : t.priority \in { "high", "medium" })

\* ', '.join(themes)
RECURSIVE JoinThemes(_)
JoinThemes(themes) ==
    IF themes = << >> THEN << >>
    ELSE IF Len(themes) = 1 THEN << themes[1] >>
    ELSE << themes[1], ",", " " >> \o JoinThemes(Tail(themes))

\* task['description'] as it is written into the body
DescriptionText(task) ==
    CASE task.type = "research" ->
           << "Investigate patterns detected in learning cycle:", " " >>
           \o JoinThemes(task.description[2])
      [] task.type = "learning" ->
           << task.description[1], " ", task.description[2], " ",
              "based on monitoring insights" >>
      [] task.type = "synthesis" ->
           << task.description[1], " ", task.description[2], " ", "and", " ",
              task.description[3], " ", "to identify novel connections" >>

ChecklistLine(text) == << "-", " ", "[ ]", " ", text, "\n" >>

\* create_github_issues: body = f"""...""" for one task, formatted at minute at
FormatIssueBody(task, at) ==
    << "\n", "**", "Type:", "**", " ", task.type, "\n",
       "**", "Priority:", "**", " ", task.priority, "\n", "\n",
       "##", " ", "Description", "\n" >>
    \o DescriptionText(task)
    \o << "\n", "\n", "##", " ", "Success Criteria", "\n" >>
    \o ChecklistLine("Research completed and documented")
    \o ChecklistLine("Key insights identified and recorded")
    \o ChecklistLine("Connections to existing work mapped")
    \o ChecklistLine("Findings shared via blog post or discussion")
    \o << "\n", "##", " ", "Context", "\n",
          "Auto-generated from autonomous learning cycle at", " ", ToString(at), "\n" >>

CycleResult(learning_report, tasks, ready) ==
    [ learning_report |-> learning_report,
      tasks_generated |-> IF tasks # << >> THEN Len(tasks) ELSE 0,
      ready_tasks_found |-> Len(ready),
      status |-> "completed" ]

\* ------------------------------------------------------------ initial state
NoReport == [ new_items |-> 0, patterns_detected |-> 0, top_themes |-> << >> ]
NoResult == [ learning_report |-> NoReport, tasks_generated |-> 0,
              ready_tasks_found |-> 0, status |-> "none" ]
NoOp == [ op |-> "none", number |-> 0, returned |-> FALSE, done |-> {},
          was_claimed |-> FALSE ]
NoBatch == [ valid |-> FALSE, batch |-> << >>, repeated |-> FALSE, before |-> {} ]

\* seen_items.json does not exist before the first run
NoFile == [ state |-> "absent", ids |-> {} ]

\* (variant: the missing file is not caught)
LoadOutcome_NoCatch(file) ==
    CASE file.state = "valid" -> [ ok |-> TRUE, ids |-> file.ids ]
      [] OTHER -> [ ok |-> FALSE, ids |-> {} ]

\* load_seen_items: only FileNotFoundError is caught
LoadOutcome(file) ==
    CASE file.state = "absent" -> [ ok |-> TRUE, ids |-> {} ]
      [] file.state = "valid" -> [ ok |-> TRUE, ids |-> file.ids ]
      [] OTHER -> [ ok |-> FALSE, ids |-> {} ]     \* json.JSONDecodeError

Modes == { "single", "continuous" }

StartPc(m) == IF m = "continuous" THEN "loop" ELSE "main"

\* where a process is once AutonomousLearner() was constructed, or failed to be
AfterLoad(m, file) == IF LoadOutcome(file).ok THEN StartPc(m) ELSE "start_failed"

\* the tracker holds issues waiting for work or issues being worked on
TrackerInit ==
    /\ \E l \in { "ready-for-work", "in-progress" } : labels = [n \in Issues |-> { l }]
    /\ assignees = [n \in Issues |-> FALSE]
    /\ closed = [n \in Issues |-> FALSE]
    /\ comments = [n \in Issues |-> {}]
    /\ calls = 0
    /\ last_op = NoOp
    /\ claimed = {}

\* AutonomousLearner.__init__ / ContinuousLearningMonitor.__init__, given what
\* load_seen_items returned
FreshMemory(ids) ==
    /\ cycle_count' = 0
    /\ potential_tasks' = << >>
    /\ ready_tasks' = << >>
    /\ best_task' = None
    /\ cycle_result' = NoResult
    /\ seen_items' = ids
    /\ learning_queue' = << >>
    /\ patterns_detected' = << >>
    /\ all_items' = << >>
    /\ new_items' = << >>
    /\ patterns' = << >>
    /\ report' = NoReport
    /\ last_report' = NoReport
    /\ raw_batch' = << >>
    /\ deduped_raw' = NoBatch
    /\ sleeps' = << >>
    /\ last_status' = "none"
    /\ cycle_nums' = << >>

Init ==
    /\ mode \in Modes
    /\ pc = AfterLoad(mode, NoFile)
    /\ cycle_count = 0
    /\ potential_tasks = << >>
    /\ ready_tasks = << >>
    /\ best_task = None
    /\ cycle_result = NoResult
    /\ seen_items = LoadOutcome(NoFile).ids
    /\ learning_queue = << >>
    /\ patterns_detected = << >>
    /\ all_items = << >>
    /\ new_items = << >>
    /\ patterns = << >>
    /\ report = NoReport
    /\ raw_batch = << >>
    /\ deduped_raw = NoBatch
    /\ sleeps = << >>
    /\ last_status = "none"
    /\ cycle_nums = << >>
    /\ seen_file = NoFile
    /\ cycle_files = {}
    /\ now = 0
    /\ recent_cycles = << >>
    /\ last_report = NoReport
    /\ issue_bodies = << >>
    /\ stopped_from = "none"
    /\ total_cycles = 0
    /\ faults = 0
    /\ TrackerInit

\* ----------------------------------------------------------------- actions
cycle_locals == << potential_tasks, ready_tasks, best_task, cycle_result,
                   all_items, new_items, patterns, report, raw_batch >>
monitor_state == << seen_items, learning_queue, patterns_detected >>
loop_history == << sleeps, last_status, cycle_nums >>
durable == << seen_file, cycle_files >>
budget == << total_cycles, faults >>

\* the environment (disk, gh) may fail a call
MayFail == faults < MaxFaults

\* where an exception raised inside a cycle lands: the `except Exception` clause
\* of run_continuous, or out of main() in single-cycle mode
Raised == IF mode = "continuous" THEN "except" ELSE "crashed"

\* run_continuous: top of the while loop, cycle_count += 1, call autonomous_cycle
BeginCycle ==
    /\ pc = "loop"
    /\ total_cycles < MaxCycles
    /\ total_cycles' = total_cycles + 1
    /\ cycle_count' = cycle_count + 1
    /\ cycle_nums' = Append(cycle_nums, cycle_count + 1)
    /\ sleeps' = << >>
    /\ pc' = "discover"
    /\ potential_tasks' = << >>
    /\ ready_tasks' = << >>
    /\ best_task' = None
    /\ cycle_result' = NoResult
    /\ all_items' = << >>
    /\ new_items' = << >>
    /\ patterns' = << >>
    /\ report' = NoReport
    /\ raw_batch' = << >>
    /\ UNCHANGED << mode, now, monitor_state, durable, stopped_from, last_status,
                    deduped_raw, faults, queue_vars, recent_cycles, last_report, issue_bodies >>

\* main(): learner.autonomous_cycle()
BeginSingle ==
    /\ pc = "main"
    /\ total_cycles < MaxCycles
    /\ total_cycles' = total_cycles + 1
    /\ pc' = "discover"
    /\ UNCHANGED << mode, now, cycle_count, cycle_locals, monitor_state, durable,
                    stopped_from, loop_history, deduped_raw, faults, queue_vars, recent_cycles, last_report, issue_bodies >>

\* run_monitoring_cycle: the three fetch_github_trending calls and search_arxiv_papers
Discover ==
    /\ pc = "discover"
    /\ \E batch \in GithubBatches :
         /\ raw_batch' = batch
         /\ all_items' = batch \o search_arxiv_papers(seen_items)
    /\ pc' = "dedup"
    /\ UNCHANGED << mode, now, cycle_count, potential_tasks, ready_tasks, best_task,
                    cycle_result, new_items, patterns, report, monitor_state,
                    durable, stopped_from, loop_history, deduped_raw, budget,
                    queue_vars, recent_cycles, last_report, issue_bodies >>

\* run_monitoring_cycle: "Filter out already seen items"
DedupFilter ==
    /\ pc = "dedup"
    /\ new_items' = FilterNew(all_items, seen_items).new
    /\ seen_items' = FilterNew(all_items, seen_items).seen
    /\ deduped_raw' = [ valid |-> TRUE, batch |-> raw_batch,
                         repeated |-> deduped_raw.valid /\ deduped_raw.batch = raw_batch,
                         before |-> seen_items ]
    /\ pc' = "detect"
    /\ UNCHANGED << mode, now, cycle_count, potential_tasks, ready_tasks, best_task,
                    cycle_result, all_items, patterns, report, raw_batch,
                    learning_queue, patterns_detected, durable, stopped_from,
                    loop_history, budget, queue_vars, recent_cycles, last_report, issue_bodies >>

\* (variant: patterns are detected over the accumulated queue and the new items)
DetectPatterns_WithQueue ==
    /\ pc = "detect"
    /\ patterns' = detect_cross_domain_patterns(learning_queue \o new_items)
    /\ patterns_detected' =
           patterns_detected \o detect_cross_domain_patterns(learning_queue \o new_items)
    /\ pc' = "prioritize"
    /\ UNCHANGED << mode, now, cycle_count, potential_tasks, ready_tasks, best_task,
                    cycle_result, all_items, new_items, report, raw_batch,
                    seen_items, learning_queue, durable, stopped_from,
                    loop_history, deduped_raw, budget, queue_vars, recent_cycles, last_report, issue_bodies >>

\* run_monitoring_cycle: "Detect patterns"
DetectPatterns ==
    /\ pc = "detect"
    /\ patterns' = detect_cross_domain_patterns(new_items)
    /\ patterns_detected' = patterns_detected \o detect_cross_domain_patterns(new_items)
    /\ pc' = "prioritize"
    /\ UNCHANGED << mode, now, cycle_count, potential_tasks, ready_tasks, best_task,
                    cycle_result, all_items, new_items, report, raw_batch,
                    seen_items, learning_queue, durable, stopped_from,
                    loop_history, deduped_raw, budget, queue_vars, recent_cycles, last_report, issue_bodies >>

Prioritize ==
    /\ pc = "prioritize"
    /\ learning_queue' =
           learning_queue \o prioritize_learning_opportunities(new_items \o patterns)
    /\ pc' = "report"
    /\ UNCHANGED << mode, now, cycle_count, cycle_locals, seen_items,
                    patterns_detected, durable, stopped_from, loop_history,
                    deduped_raw, budget, queue_vars, recent_cycles, last_report, issue_bodies >>

\* (variant: the report counts what this cycle added only)
BuildReport_CycleOnly ==
    /\ pc = "report"
    /\ report' = generate_learning_report(
                     prioritize_learning_opportunities(new_items \o patterns), patterns)
    /\ last_report' = generate_learning_report(
                          prioritize_learning_opportunities(new_items \o patterns), patterns)
    /\ pc' = "save"
    /\ UNCHANGED << mode, now, cycle_count, potential_tasks, ready_tasks, best_task,
                    cycle_result, all_items, new_items, patterns, raw_batch,
                    monitor_state, durable, stopped_from, loop_history,
                    deduped_raw, budget, queue_vars, recent_cycles, issue_bodies >>

\* run_monitoring_cycle: report = self.generate_learning_report()
BuildReport ==
    /\ pc = "report"
    /\ report' = generate_learning_report(learning_queue, patterns_detected)
    /\ last_report' = generate_learning_report(learning_queue, patterns_detected)
    /\ pc' = "save"
    /\ UNCHANGED << mode, now, cycle_count, potential_tasks, ready_tasks, best_task,
                    cycle_result, all_items, new_items, patterns, raw_batch,
                    monitor_state, durable, stopped_from, loop_history,
                    deduped_raw, budget, queue_vars, recent_cycles, issue_bodies >>

\* save_seen_items: os.makedirs and open(..., "w"); open truncates the file
SaveOpen ==
    /\ pc = "save"
    /\ \/ /\ seen_file' = [ state |-> "empty", ids |-> {} ]
          /\ pc' = "save_write"
          /\ UNCHANGED faults
       \/ /\ MayFail                   \* OSError, caught and printed
          /\ faults' = faults + 1
          /\ pc' = "generate"
          /\ UNCHANGED seen_file
    /\ UNCHANGED << mode, now, cycle_count, cycle_locals, monitor_state, cycle_files,
                    stopped_from, loop_history, deduped_raw, total_cycles,
                    queue_vars, recent_cycles, last_report, issue_bodies >>

\* what the file holds when json.dump or the closing flush raises: nothing, or
\* the beginning of the text
FailedWrite == { [ state |-> "empty", ids |-> {} ], [ state |-> "partial", ids |-> {} ] }

\* (variant: the failure of the write is not caught and leaves the cycle)
SaveWrite_Raises ==
    /\ pc = "save_write"
    /\ \/ /\ seen_file' = [ state |-> "valid", ids |-> seen_items ]
          /\ pc' = "generate"
          /\ UNCHANGED faults
       \/ /\ MayFail
          /\ faults' = faults + 1
          /\ seen_file' \in FailedWrite
          /\ pc' = Raised
    /\ UNCHANGED << mode, now, cycle_count, cycle_locals, monitor_state, cycle_files,
                    stopped_from, loop_history, deduped_raw, total_cycles,
                    queue_vars, recent_cycles, last_report, issue_bodies >>

\* save_seen_items: json.dump(list(self.seen_items), f) and the close of the file
SaveWrite ==
    /\ pc = "save_write"
    /\ \/ /\ seen_file' = [ state |-> "valid", ids |-> seen_items ]
          /\ UNCHANGED faults
       \/ /\ MayFail                   \* exception, caught and printed
          /\ faults' = faults + 1
          /\ seen_file' \in FailedWrite
    /\ pc' = "generate"
    /\ UNCHANGED << mode, now, cycle_count, cycle_locals, monitor_state, cycle_files,
                    stopped_from, loop_history, deduped_raw, total_cycles,
                    queue_vars, recent_cycles, last_report, issue_bodies >>

\* autonomous_cycle step 2
GenerateTasks ==
    /\ pc = "generate"
    /\ potential_tasks' = process_learning_insights(report)
    /\ pc' = IF HighValueTasks(process_learning_insights(report)) # << >>
             THEN "publish" ELSE "fetch"
    /\ UNCHANGED << mode, now, cycle_count, ready_tasks, best_task, cycle_result,
                    all_items, new_items, patterns, report, raw_batch,
                    monitor_state, durable, stopped_from, loop_history,
                    deduped_raw, budget, queue_vars, recent_cycles, last_report, issue_bodies >>

\* autonomous_cycle step 3: create_github_issues only prints and returns numbers
PublishTasks ==
    /\ pc = "publish"
    /\ pc' = "fetch"
    /\ UNCHANGED << mode, now, cycle_count, cycle_locals, monitor_state, durable,
                    stopped_from, loop_history, deduped_raw, budget, queue_vars, recent_cycles, last_report, issue_bodies >>

AfterFetch(ready) == IF ready # << >> THEN "select" ELSE "result"

\* (variant: a failure that leaves the cycle takes back the ids it marked)
FetchReady_Rollback ==
    /\ pc = "fetch"
    /\ \/ /\ ready_tasks' = ListReady(labels, closed)
          /\ pc' = AfterFetch(ListReady(labels, closed))
          /\ UNCHANGED << faults, seen_items >>
       \/ /\ MayFail
          /\ faults' = faults + 1
          /\ ready_tasks' = << >>
          /\ pc' = AfterFetch(<< >>)
          /\ UNCHANGED seen_items
       \/ /\ MayFail
          /\ faults' = faults + 1
          /\ pc' = Raised
          /\ seen_items' = deduped_raw.before
          /\ UNCHANGED ready_tasks
    /\ UNCHANGED << mode, now, cycle_count, potential_tasks, best_task, cycle_result,
                    all_items, new_items, patterns, report, raw_batch,
                    learning_queue, patterns_detected, durable, stopped_from,
                    loop_history, deduped_raw, total_cycles, queue_vars,
                    recent_cycles, last_report, issue_bodies >>

\* autonomous_cycle step 4: get_ready_tasks
FetchReady ==
    /\ pc = "fetch"
    /\ \/ /\ ready_tasks' = ListReady(labels, closed)
          /\ pc' = AfterFetch(ListReady(labels, closed))
          /\ UNCHANGED faults
       \/ /\ MayFail                   \* CalledProcessError: returns []
          /\ faults' = faults + 1
          /\ ready_tasks' = << >>
          /\ pc' = AfterFetch(<< >>)
       \/ /\ MayFail                   \* gh missing or malformed JSON: not caught
          /\ faults' = faults + 1
          /\ pc' = Raised
          /\ UNCHANGED ready_tasks
    /\ UNCHANGED << mode, now, cycle_count, potential_tasks, best_task, cycle_result,
                    all_items, new_items, patterns, report, raw_batch,
                    monitor_state, durable, stopped_from, loop_history,
                    deduped_raw, total_cycles, queue_vars, recent_cycles, last_report, issue_bodies >>

SelectBest ==
    /\ pc = "select"
    /\ best_task' = select_best_task(ready_tasks)
    /\ pc' = "result"
    /\ UNCHANGED << mode, now, cycle_count, potential_tasks, ready_tasks,
                    cycle_result, all_items, new_items, patterns, report,
                    raw_batch, monitor_state, durable, stopped_from,
                    loop_history, deduped_raw, budget, queue_vars, recent_cycles, last_report, issue_bodies >>

\* autonomous_cycle: the return statement
ReturnResult ==
    /\ pc = "result"
    /\ cycle_result' = CycleResult(report, potential_tasks, ready_tasks)
    /\ pc' = IF mode = "continuous" THEN "store" ELSE "done"
    /\ UNCHANGED << mode, now, cycle_count, potential_tasks, ready_tasks, best_task,
                    all_items, new_items, patterns, report, raw_batch,
                    monitor_state, durable, stopped_from, loop_history,
                    deduped_raw, budget, queue_vars, recent_cycles, last_report, issue_bodies >>

\* the file name of store_cycle_result: cycle_{number:03d}_{%Y%m%d_%H%M}.json
CycleFileName(number, minute) == << number, minute >>

\* open(filename, 'w') and json.dump: a file of that name is replaced
WriteCycleFile(files, number, minute, result) ==
    { f \in files : f.name # CycleFileName(number, minute) }
        \cup { [ name |-> CycleFileName(number, minute), number |-> number,
                 result |-> result ] }

\* store_cycle_result(cycle_result, cycle_count)
StoreCycleResult ==
    /\ pc = "store"
    /\ \/ /\ cycle_files' = WriteCycleFile(cycle_files, cycle_count, now, cycle_result)
          /\ UNCHANGED faults
       \/ /\ MayFail                   \* exception, caught and printed
          /\ faults' = faults + 1
          /\ UNCHANGED cycle_files
    /\ pc' = "sleep"
    /\ UNCHANGED << mode, now, cycle_count, cycle_locals, monitor_state, seen_file,
                    stopped_from, loop_history, deduped_raw, total_cycles,
                    queue_vars, recent_cycles, last_report, issue_bodies >>

\* run_continuous: time.sleep(cycle_interval_minutes * 60)
Sleep ==
    /\ pc = "sleep"
    /\ sleeps' = Append(sleeps, CycleIntervalMinutes * 60)
    /\ last_status' = "completed"
    /\ pc' = "loop"
    /\ now' = now + 1
    /\ UNCHANGED << mode, cycle_count, cycle_locals, monitor_state, durable,
                    stopped_from, cycle_nums, deduped_raw, budget, queue_vars, recent_cycles, last_report, issue_bodies >>

\* (variant: the handler falls through to the normal inter-cycle sleep)
Backoff_ThenSleep ==
    /\ pc = "except"
    /\ sleeps' = sleeps \o << BackoffSeconds, CycleIntervalMinutes * 60 >>
    /\ last_status' = "failed"
    /\ pc' = "loop"
    /\ now' = now + 1
    /\ UNCHANGED << mode, cycle_count, cycle_locals, monitor_state, durable,
                    stopped_from, cycle_nums, deduped_raw, budget, queue_vars, recent_cycles, last_report, issue_bodies >>

\* (variant: the handler leaves the loop)
Backoff_Exit ==
    /\ pc = "except"
    /\ last_status' = "failed"
    /\ pc' = "exited"
    /\ now' = now + 1
    /\ UNCHANGED << mode, cycle_count, cycle_locals, monitor_state, durable,
                    stopped_from, sleeps, cycle_nums, deduped_raw, budget,
                    queue_vars, recent_cycles, last_report, issue_bodies >>

\* run_continuous: `except Exception`, time.sleep(300)
Backoff ==
    /\ pc = "except"
    /\ sleeps' = Append(sleeps, BackoffSeconds)
    /\ last_status' = "failed"
    /\ pc' = "loop"
    /\ now' = now + 1
    /\ UNCHANGED << mode, cycle_count, cycle_locals, monitor_state, durable,
                    stopped_from, cycle_nums, deduped_raw, budget, queue_vars, recent_cycles, last_report, issue_bodies >>

InFlight == { "discover", "dedup", "detect", "prioritize", "report", "save",
              "save_write", "generate", "publish", "fetch", "select", "result",
              "store" }
BetweenCycles == { "loop", "sleep", "except" }

\* KeyboardInterrupt is raised in the main thread wherever it is: inside the try
\* block of run_continuous it reaches `except KeyboardInterrupt: break`,
\* elsewhere it ends the process; the memory of the process is gone
Interrupt ==
    /\ pc \in InFlight \cup BetweenCycles
    /\ stopped_from' = pc
    /\ pc' = "stopped"
    /\ FreshMemory({})
    /\ UNCHANGED << mode, now, durable, budget, queue_vars, recent_cycles, issue_bodies >>

\* Between two processes the minute may have changed. Only the order of the
\* clock and the minutes in the file names matters, so a later start is a
\* different case only when some file carries the current minute.
StampedNow(files, minute) == \E f \in files : f.name[2] = minute

\* a new process: AutonomousLearner() builds a fresh monitor
Restart ==
    /\ pc \in { "stopped", "done", "crashed", "start_failed" }
    /\ total_cycles < MaxCycles
    /\ \E m \in Modes :
         /\ mode' = m
         /\ pc' = AfterLoad(m, seen_file)
    /\ FreshMemory(LoadOutcome(seen_file).ids)
    /\ stopped_from' = "none"
    /\ \/ now' = now                  \* started again within the same minute
       \/ StampedNow(cycle_files, now) /\ now' = now + 1
    /\ UNCHANGED << durable, budget, queue_vars, recent_cycles, issue_bodies >>

ProgramStep ==
    \/ BeginCycle \/ BeginSingle \/ Discover \/ DedupFilter \/ DetectPatterns
    \/ Prioritize \/ BuildReport \/ SaveOpen \/ SaveWrite \/ GenerateTasks
    \/ PublishTasks \/ FetchReady \/ SelectBest \/ ReturnResult
    \/ StoreCycleResult \/ Sleep \/ Backoff

Next == ProgramStep \/ Interrupt \/ Restart

Spec == Init /\ [][Next]_vars

\* ---------------------------------------------------- GitHubWorkQueue calls
\* self.labels
Label(state) ==
    CASE state = "ready" -> "ready-for-work"
      [] state = "in_progress" -> "in-progress"
      [] state = "blocked" -> "blocked"
      [] state = "completed" -> "completed"

\* gh issue edit --remove-label r --add-label a
Relabel(lbls, r, a) == (lbls \ { Label(r) }) \cup { Label(a) }

\* The gh calls of one operation run in order; `failing` is the first call that
\* exits with an error (CalledProcessError), "none" if every call succeeds.
\* claim_task: assign, relabel, comment; the comment's failure is swallowed by
\* add_comment
ClaimSteps(failing) ==
    CASE failing = "assign" -> {}
      [] failing = "relabel" -> { "assign" }
      [] failing = "comment" -> { "assign", "relabel" }
      [] OTHER -> { "assign", "relabel", "comment" }

ClaimReturns(failing) == failing \notin { "assign", "relabel" }

claim_task(n, failing) ==
    /\ assignees' = [assignees EXCEPT ![n] = @ \/ "assign" \in ClaimSteps(failing)]
    /\ labels' = [labels EXCEPT ![n] =
                     IF "relabel" \in ClaimSteps(failing)
                     THEN Relabel(@, "ready", "in_progress") ELSE @]
    /\ comments' = [comments EXCEPT ![n] =
                       IF "comment" \in ClaimSteps(failing)
                       THEN @ \cup { "claimed" } ELSE @]
    /\ last_op' = [ op |-> "claim", number |-> n,
                    returned |-> ClaimReturns(failing),
                    done |-> ClaimSteps(failing), was_claimed |-> n \in claimed ]
    /\ claimed' = IF ClaimReturns(failing) THEN claimed \cup { n } ELSE claimed
    /\ UNCHANGED closed

\* complete_task: relabel, comment (failure swallowed), close
CompleteSteps(failing) ==
    CASE failing = "relabel" -> {}
      [] failing = "comment" -> { "relabel", "close" }
      [] failing = "close" -> { "relabel", "comment" }
      [] OTHER -> { "relabel", "comment", "close" }

CompleteReturns(failing) == failing \notin { "relabel", "close" }

complete_task(n, failing) ==
    /\ labels' = [labels EXCEPT ![n] =
                     IF "relabel" \in CompleteSteps(failing)
                     THEN Relabel(@, "in_progress", "completed") ELSE @]
    /\ comments' = [comments EXCEPT ![n] =
                       IF "comment" \in CompleteSteps(failing)
                       THEN @ \cup { "completed" } ELSE @]
    /\ closed' = [closed EXCEPT ![n] = @ \/ "close" \in CompleteSteps(failing)]
    /\ last_op' = [ op |-> "complete", number |-> n,
                    returned |-> CompleteReturns(failing),
                    done |-> CompleteSteps(failing), was_claimed |-> n \in claimed ]
    /\ UNCHANGED << assignees, claimed >>

\* mark_blocked: relabel, comment (failure swallowed)
BlockedSteps(failing) ==
    CASE failing = "relabel" -> {}
      [] failing = "comment" -> { "relabel" }
      [] OTHER -> { "relabel", "comment" }

BlockedReturns(failing) == failing # "relabel"

mark_blocked(n, failing) ==
    /\ labels' = [labels EXCEPT ![n] =
                     IF "relabel" \in BlockedSteps(failing)
                     THEN Relabel(@, "in_progress", "blocked") ELSE @]
    /\ comments' = [comments EXCEPT ![n] =
                       IF "comment" \in BlockedSteps(failing)
                       THEN @ \cup { "blocked" } ELSE @]
    /\ last_op' = [ op |-> "blocked", number |-> n,
                    returned |-> BlockedReturns(failing),
                    done |-> BlockedSteps(failing), was_claimed |-> n \in claimed ]
    /\ UNCHANGED << assignees, closed, claimed >>

\* update_progress: add_comment, whose failure is swallowed
update_progress(n, failing) ==
    /\ comments' = [comments EXCEPT ![n] =
                       IF failing = "comment" THEN @ ELSE @ \cup { "progress" }]
    /\ last_op' = [ op |-> "progress", number |-> n, returned |-> TRUE,
                    done |-> IF failing = "comment" THEN {} ELSE { "comment" },
                    was_claimed |-> n \in claimed ]
    /\ UNCHANGED << labels, assignees, closed, claimed >>

ClaimTask ==
    /\ pc = "queue"
    /\ calls < MaxCalls
    /\ calls' = calls + 1
    /\ \E n \in Issues, failing \in { "none", "assign", "relabel", "comment" } :
         claim_task(n, failing)
    /\ UNCHANGED engine_vars

CompleteTask ==
    /\ pc = "queue"
    /\ calls < MaxCalls
    /\ calls' = calls + 1
    /\ \E n \in Issues, failing \in { "none", "relabel", "comment", "close" } :
         complete_task(n, failing)
    /\ UNCHANGED engine_vars

MarkBlocked ==
    /\ pc = "queue"
    /\ calls < MaxCalls
    /\ calls' = calls + 1
    /\ \E n \in Issues, failing \in { "none", "relabel", "comment" } :
         mark_blocked(n, failing)
    /\ UNCHANGED engine_vars

UpdateProgress ==
    /\ pc = "queue"
    /\ calls < MaxCalls
    /\ calls' = calls + 1
    /\ \E n \in Issues, failing \in { "none", "comment" } :
         update_progress(n, failing)
    /\ UNCHANGED engine_vars

\* a client of GitHubWorkQueue: any sequence of its calls on the tracker's issues
InitQueue ==
    /\ mode = "queue"
    /\ pc = "queue"
    /\ cycle_count = 0
    /\ potential_tasks = << >>
    /\ ready_tasks = << >>
    /\ best_task = None
    /\ cycle_result = NoResult
    /\ seen_items = {}
    /\ learning_queue = << >>
    /\ patterns_detected = << >>
    /\ all_items = << >>
    /\ new_items = << >>
    /\ patterns = << >>
    /\ report = NoReport
    /\ raw_batch = << >>
    /\ deduped_raw = NoBatch
    /\ sleeps = << >>
    /\ last_status = "none"
    /\ cycle_nums = << >>
    /\ seen_file = NoFile
    /\ cycle_files = {}
    /\ now = 0
    /\ recent_cycles = << >>
    /\ last_report = NoReport
    /\ issue_bodies = << >>
    /\ stopped_from = "none"
    /\ total_cycles = 0
    /\ faults = 0
    /\ labels \in [Issues -> { { "ready-for-work" }, { "in-progress" } }]
    /\ assignees = [n \in Issues |-> FALSE]
    /\ closed = [n \in Issues |-> FALSE]
    /\ comments = [n \in Issues |-> {}]
    /\ calls = 0
    /\ last_op = NoOp
    /\ claimed = {}

NextQueue == ClaimTask \/ CompleteTask \/ MarkBlocked \/ UpdateProgress

SpecQueue == InitQueue /\ [][NextQueue]_vars

\* ------------------------------------- detect_cross_domain_patterns on its own
\* items a batch may hold
ItemUniverse ==
    { Repo("org/agent", << "autonomous", " ", "AI", " ", "agent" >>),
      Repo("org/policy", << "AI", " ", "governance", " ", "toolkit" >>),
      Repo("org/ai-gov", << "governance", " ", "ethics" >>),
      Repo("org/mltools", << "ml", " ", "automation" >>),
      Paper(arxiv_queries[1]),
      Paper(arxiv_queries[2]) }

ItemBatches == UNION { [1..n -> ItemUniverse] : n \in 0..MaxItems }

\* a caller of the detector holding any batch of items
InitDetect ==
    /\ mode = "detector"
    /\ pc = "detector"
    /\ new_items \in ItemBatches
    /\ cycle_count = 0
    /\ potential_tasks = << >>
    /\ ready_tasks = << >>
    /\ best_task = None
    /\ cycle_result = NoResult
    /\ seen_items = {}
    /\ learning_queue = << >>
    /\ patterns_detected = << >>
    /\ all_items = << >>
    /\ patterns = << >>
    /\ report = NoReport
    /\ raw_batch = << >>
    /\ deduped_raw = NoBatch
    /\ sleeps = << >>
    /\ last_status = "none"
    /\ cycle_nums = << >>
    /\ seen_file = NoFile
    /\ cycle_files = {}
    /\ now = 0
    /\ recent_cycles = << >>
    /\ last_report = NoReport
    /\ issue_bodies = << >>
    /\ stopped_from = "none"
    /\ total_cycles = 0
    /\ faults = 0
    /\ TrackerInit

\* patterns = detect_cross_domain_patterns(items)
ApplyDetect ==
    /\ pc = "detector"
    /\ patterns' = detect_cross_domain_patterns(new_items)
    /\ pc' = "detected"
    /\ UNCHANGED << mode, now, cycle_count, potential_tasks, ready_tasks, best_task,
                    cycle_result, all_items, new_items, report, raw_batch,
                    monitor_state, durable, stopped_from, loop_history,
                    deduped_raw, budget, queue_vars, recent_cycles, last_report, issue_bodies >>

NextDetect == ApplyDetect

SpecDetect == InitDetect /\ [][NextDetect]_vars

\* what a caller of one function alone never touches
Elsewhere ==
    /\ cycle_result = NoResult
    /\ seen_items = {}
    /\ patterns_detected = << >>
    /\ all_items = << >>
    /\ raw_batch = << >>
    /\ deduped_raw = NoBatch
    /\ sleeps = << >>
    /\ last_status = "none"
    /\ cycle_nums = << >>
    /\ seen_file = NoFile
    /\ stopped_from = "none"
    /\ faults = 0
    /\ TrackerInit

\* ------------------------------ prioritize_learning_opportunities on its own
\* items a batch may hold, by the keyword classes of their text:
\* all three, mid only, mid and general, general only (twice), none
ScoreUniverse ==
    { Repo("org/charter", << "AI", " ", "governance", " ", "for", " ",
                             "distributed", " ", "teams" >>),
      Repo("org/ledger", << "distributed", " ", "ledger" >>),
      Repo("org/llm-kit", << "open", " ", "source", " ", "llm" >>),
      Repo("org/agent", << "autonomous", " ", "AI", " ", "agent" >>),
      Repo("org/mltools", << "ml", " ", "automation" >>),
      Paper(arxiv_queries[2]) }

ScoreBatches == UNION { [1..n -> ScoreUniverse] : n \in 0..MaxItems }

\* run_monitoring_cycle between the detector and the prioritizer, for any batch
\* of new items
InitPrioritize ==
    /\ mode = "prioritizer"
    /\ pc = "prioritizer"
    /\ new_items \in ScoreBatches
    /\ patterns = detect_cross_domain_patterns(new_items)
    /\ learning_queue = << >>
    /\ cycle_count = 0
    /\ potential_tasks = << >>
    /\ ready_tasks = << >>
    /\ best_task = None
    /\ report = NoReport
    /\ cycle_files = {}
    /\ now = 0
    /\ recent_cycles = << >>
    /\ last_report = NoReport
    /\ issue_bodies = << >>
    /\ total_cycles = 0
    /\ Elsewhere

\* prioritized = self.prioritize_learning_opportunities(new_items + patterns)
\* self.learning_queue.extend(prioritized)
ApplyPrioritize ==
    /\ pc = "prioritizer"
    /\ learning_queue' =
           learning_queue \o prioritize_learning_opportunities(new_items \o patterns)
    /\ pc' = "prioritized"
    /\ UNCHANGED << mode, now, cycle_count, potential_tasks, ready_tasks, best_task,
                    cycle_result, all_items, new_items, patterns, report, raw_batch,
                    seen_items, patterns_detected, durable, stopped_from,
                    loop_history, deduped_raw, budget, queue_vars, recent_cycles, last_report, issue_bodies >>

NextPrioritize == ApplyPrioritize

SpecPrioritize == InitPrioritize /\ [][NextPrioritize]_vars

\* --------------------------------------- process_learning_insights on its own
ReportThemes == { "ai", "autonomous", "governance", "distributed" }

\* get_top_themes lists every theme once
ThemeLists ==
    { t \in UNION { [1..n -> ReportThemes] : n \in 0..MaxThemes } :
        \A i, j \in DOMAIN t : i # j => t[i] # t[j] }

Reports ==
    { [ new_items |-> Len(t), patterns_detected |-> p, top_themes |-> t ] :
        p \in 0..2, t \in ThemeLists }

\* autonomous_cycle once the monitor has returned any report
InitInsights ==
    /\ mode = "insights"
    /\ pc = "insights"
    /\ report \in Reports
    /\ potential_tasks = << >>
    /\ new_items = << >>
    /\ patterns = << >>
    /\ learning_queue = << >>
    /\ cycle_count = 0
    /\ ready_tasks = << >>
    /\ best_task = None
    /\ cycle_files = {}
    /\ now = 0
    /\ recent_cycles = << >>
    /\ last_report = NoReport
    /\ issue_bodies = << >>
    /\ total_cycles = 0
    /\ Elsewhere

\* potential_tasks = self.process_learning_insights(learning_report)
ApplyInsights ==
    /\ pc = "insights"
    /\ potential_tasks' = process_learning_insights(report)
    /\ pc' = "tasks"
    /\ UNCHANGED << mode, now, cycle_count, ready_tasks, best_task, cycle_result,
                    all_items, new_items, patterns, report, raw_batch,
                    monitor_state, durable, stopped_from, loop_history,
                    deduped_raw, budget, queue_vars, recent_cycles, last_report, issue_bodies >>

NextInsights == ApplyInsights

SpecInsights == InitInsights /\ [][NextInsights]_vars

\* --------------------------------------------- create_github_issues on its own
\* autonomous_cycle once process_learning_insights has returned its proposals
InitPublish ==
    /\ mode = "publisher"
    /\ pc = "publisher"
    /\ report \in Reports
    /\ potential_tasks = process_learning_insights(report)
    /\ new_items = << >>
    /\ patterns = << >>
    /\ learning_queue = << >>
    /\ cycle_count = 0
    /\ ready_tasks = << >>
    /\ best_task = None
    /\ cycle_files = {}
    /\ now = 0
    /\ recent_cycles = << >>
    /\ last_report = NoReport
    /\ issue_bodies = << >>
    /\ total_cycles = 0
    /\ Elsewhere

\* created_issues = self.create_github_issues(high_value_tasks): the loop over
\* the tasks, with the body it formats for each of them
FormatBodies ==
    /\ pc = "publisher"
    /\ potential_tasks # << >>
    /\ HighValueTasks(potential_tasks) # << >>
    /\ issue_bodies' = [i \in DOMAIN HighValueTasks(potential_tasks) |->
                           FormatIssueBody(HighValueTasks(potential_tasks)[i], now)]
    /\ pc' = "published"
    /\ UNCHANGED << mode, now, cycle_count, potential_tasks, ready_tasks, best_task,
                    cycle_result, all_items, new_items, patterns, report, raw_batch,
                    monitor_state, durable, stopped_from, loop_history,
                    deduped_raw, budget, queue_vars, recent_cycles, last_report >>

NextPublish == FormatBodies

SpecPublish == InitPublish /\ [][NextPublish]_vars

\* ------------------------------------------------ select_best_task on its own
\* what get_ready_tasks can return: each listed issue once, in any order
ReadyLists ==
    { t \in UNION { [1..n -> 1..Len(IssueBodies)] : n \in 0..MaxItems } :
        \A i, j \in DOMAIN t : i # j => t[i] # t[j] }

\* autonomous_cycle once get_ready_tasks has returned any list
InitSelect ==
    /\ mode = "selector"
    /\ pc = "selector"
    /\ \E t \in ReadyLists : ready_tasks = [i \in DOMAIN t |-> WorkItem(t[i])]
    /\ best_task = None
    /\ potential_tasks = << >>
    /\ report = NoReport
    /\ new_items = << >>
    /\ patterns = << >>
    /\ learning_queue = << >>
    /\ cycle_count = 0
    /\ cycle_files = {}
    /\ now = 0
    /\ recent_cycles = << >>
    /\ last_report = NoReport
    /\ issue_bodies = << >>
    /\ total_cycles = 0
    /\ Elsewhere

\* best_task = self.work_queue.select_best_task(ready_tasks)
ApplySelect ==
    /\ pc = "selector"
    /\ best_task' = select_best_task(ready_tasks)
    /\ pc' = "selected"
    /\ UNCHANGED << mode, now, cycle_count, potential_tasks, ready_tasks, cycle_result,
                    all_items, new_items, patterns, report, raw_batch,
                    monitor_state, durable, stopped_from, loop_history,
                    deduped_raw, budget, queue_vars, recent_cycles, last_report, issue_bodies >>

NextSelect == ApplySelect

SpecSelect == InitSelect /\ [][NextSelect]_vars

\* ------------------------------------- the dashboard and the stored cycles
\* decimal digits of a number
RECURSIVE Digits(_)
Digits(n) == IF n < 10 THEN << n >> ELSE Digits(n \div 10) \o << n % 10 >>

\* zero padding to a width (a longer text stays as it is)
RECURSIVE PadZero(_, _)
PadZero(ds, width) == IF Len(ds) >= width THEN ds ELSE PadZero(<< 0 >> \o ds, width)

Underscore == 95                 \* ord("_")
CharOfDigit(d) == 48 + d         \* ord("0") + d

\* width of the time stamp in a file name (fixed, so that it sorts by time)
StampWidth == 4

\* the characters of f"cycle_{cycle_number:03d}_{stamp}.json" after "cycle_"
\* and before ".json", as character codes
NameText(name) ==
    LET number == PadZero(Digits(name[1]), 3)
        stamp == PadZero(Digits(name[2]), StampWidth)
    IN [i \in DOMAIN number |-> CharOfDigit(number[i])] \o << Underscore >>
           \o [i \in DOMAIN stamp |-> CharOfDigit(stamp[i])]

\* str < str
RECURSIVE StrLess(_, _)
StrLess(a, b) ==
    IF b = << >> THEN FALSE
    ELSE IF a = << >> THEN TRUE
    ELSE IF Head(a) # Head(b) THEN Head(a) < Head(b)
    ELSE StrLess(Tail(a), Tail(b))

\* cycle_files.sort(reverse=True) on the paths glob returned
RECURSIVE SortNamesDesc(_)
SortNamesDesc(files) ==
    IF files = {} THEN << >>
    ELSE LET top == CHOOSE f \in files :
                        \A g \in files \ { f } : StrLess(NameText(g.name), NameText(f.name))
         IN << top >> \o SortNamesDesc(files \ { top })

RecentLimit == 10

\* the summary get_recent_cycles builds from one file
CycleInfo(f) ==
    [ file |-> f.name,
      status |-> f.result.status,
      tasks_generated |-> f.result.tasks_generated,
      ready_tasks_found |-> f.result.ready_tasks_found,
      new_items |-> f.result.learning_report.new_items,
      patterns_detected |-> f.result.learning_report.patterns_detected,
      top_themes |-> f.result.learning_report.top_themes ]

get_recent_cycles(files) ==
    LET sorted == FirstN(SortNamesDesc(files), RecentLimit)
    IN [i \in DOMAIN sorted |-> CycleInfo(sorted[i])]

\* a learner in continuous mode and a dashboard on the same data directory;
\* the learner starts on an empty cycle log, at its first cycle or late in a
\* long run whose earlier records were moved away
LongRun == 998

InitDashboard ==
    /\ mode = "continuous"
    /\ pc = "loop"
    /\ cycle_count \in { 0, LongRun }
    /\ cycle_files = {}
    /\ now = 0
    /\ recent_cycles = << >>
    /\ last_report = NoReport
    /\ issue_bodies = << >>
    /\ potential_tasks = << >>
    /\ ready_tasks = << >>
    /\ best_task = None
    /\ report = NoReport
    /\ new_items = << >>
    /\ patterns = << >>
    /\ learning_queue = << >>
    /\ total_cycles = 0
    /\ Elsewhere

\* one iteration of run_continuous whose cycle completes: cycle_count += 1,
\* store_cycle_result(cycle_result, cycle_count), time.sleep
StoreCycle ==
    /\ pc \in { "loop", "viewed" }
    /\ Cardinality(cycle_files) < MaxStored
    /\ cycle_count' = cycle_count + 1
    /\ cycle_files' = WriteCycleFile(cycle_files, cycle_count + 1, now,
                                     CycleResult(NoReport, << >>, << >>))
    /\ now' = now + 1
    /\ pc' = "loop"
    /\ UNCHANGED << mode, cycle_locals, monitor_state, seen_file, stopped_from,
                    loop_history, deduped_raw, budget, queue_vars, recent_cycles, last_report, issue_bodies >>

\* the learner is stopped and started again: run_continuous sets cycle_count = 0
RestartLearner ==
    /\ pc \in { "loop", "viewed" }
    /\ cycle_count > 0
    /\ cycle_count' = 0
    /\ pc' = "loop"
    /\ UNCHANGED << mode, now, cycle_locals, monitor_state, durable, stopped_from,
                    loop_history, deduped_raw, budget, queue_vars, recent_cycles, last_report, issue_bodies >>

\* GET /api/cycles: jsonify(self.get_recent_cycles())
ViewCycles ==
    /\ pc = "loop"
    /\ recent_cycles' = get_recent_cycles(cycle_files)
    /\ pc' = "viewed"
    /\ UNCHANGED << mode, now, cycle_count, cycle_locals, monitor_state, durable,
                    stopped_from, loop_history, deduped_raw, budget, queue_vars,
                    last_report, issue_bodies >>

NextDashboard == StoreCycle \/ RestartLearner \/ ViewCycles

SpecDashboard == InitDashboard /\ [][NextDashboard]_vars

\* run_continuous keeps going: time.sleep returns and the while loop takes its
\* next iteration; the stop signal and a new start are up to the operator
Fairness == WF_vars(BeginCycle) /\ WF_vars(Sleep) /\ WF_vars(Backoff)

SpecFair == Init /\ [][Next]_vars /\ Fairness

\* ==================================================================== claims
Ids(items) == { items[i].id : i \in DOMAIN items }

SameProcess == pc \notin { "stopped", "done", "crashed", "start_failed" } /\ pc' # "stopped"

\* C1 (dedup invariant): within one process the store never loses an id, and the
\* dedup filter of a cycle puts no item among the new items whose id was in the
\* store before that filter ran.
C1_DedupInvariant ==
    [][ /\ SameProcess => seen_items \subseteq seen_items'
        /\ (pc = "dedup" /\ pc' = "detect") => Ids(new_items') \cap seen_items = {}
      ]_vars

\* a second cycle of one process was handed an already stored repository and
\* kept nothing as new
C1_Witness ==
    /\ pc = "detect" /\ cycle_count = 2
    /\ raw_batch # << >> /\ new_items = << >>

\* C2 (dedup idempotence): when the dedup filter runs on the same raw batch as
\* the filter run before it in the same process, it yields no new item.
C2_DedupIdempotence == deduped_raw.repeated => new_items = << >>

C2_Witness ==
    /\ pc = "detect" /\ deduped_raw.repeated
    /\ Len(raw_batch) = 3 /\ new_items = << >>

\* C3 (cycle completeness): a cycle whose discovery returned no item and whose
\* ready-work listing returned no work item returns status "completed",
\* tasks_generated = 0 and ready_tasks_found = 0.
C3_CycleCompleteness ==
    (cycle_result.status # "none" /\ all_items = << >> /\ ready_tasks = << >>)
        => /\ cycle_result.status = "completed"
           /\ cycle_result.tasks_generated = 0
           /\ cycle_result.ready_tasks_found = 0

\* C4 (backoff): when the loop is about to start the cycle after a failed one,
\* the only sleep since the failed cycle began is one pause of 300 seconds; and
\* the cycle numbers used so far are 1, 2, 3, ... in order.
C4_Backoff ==
    /\ (pc = "loop" /\ last_status = "failed") => sleeps = << BackoffSeconds >>
    /\ cycle_nums = [i \in 1..Len(cycle_nums) |-> i]
    /\ (mode = "continuous" /\ pc \in InFlight) =>
           (cycle_nums # << >> /\ cycle_nums[Len(cycle_nums)] = cycle_count)

C4_Witness ==
    /\ pc = "discover" /\ last_status = "failed" /\ cycle_nums = << 1, 2 >>

\* C5 (the loop survives a failed cycle): in continuous mode the loop never ends
\* by a crash, and whenever a cycle has failed, a next cycle starts, unless the
\* stop signal arrives first (or the model's cycle budget is used up).
C5_LoopSurvivesFailure ==
    /\ [](mode = "continuous" => pc \notin { "crashed", "exited" })
    /\ (pc = "except") ~> (pc \in { "discover", "stopped" } \/ total_cycles >= MaxCycles)

C5_Witness ==
    /\ pc = "fetch" /\ last_status = "failed" /\ cycle_count = 2

\* C6 (cooperative cancellation): the stop signal ends continuous mode only
\* between cycles, never while a cycle is in flight.
C6_CooperativeCancellation ==
    (pc = "stopped" /\ mode = "continuous") => stopped_from \in BetweenCycles

\* C7 (atomic dedup persistence): once save_seen_items is over, however it
\* ended, the file is absent (never written) or holds a complete set of ids.
C7_AtomicPersistence ==
    pc # "save_write" => seen_file.state \in { "absent", "valid" }

\* C8 (claim is all-or-nothing): claim_task returns True only if the assignment,
\* the relabelling and the comment all succeeded.
C8_ClaimAllOrNothing ==
    (last_op.op = "claim" /\ last_op.returned)
        => last_op.done = { "assign", "relabel", "comment" }

\* C9 (only claimed items are transitioned): complete_task and mark_blocked
\* change an issue only if claim_task returned True for it before.
C9_OnlyClaimedTransitioned ==
    (last_op.op \in { "complete", "blocked" } /\ last_op.done # {})
        => last_op.was_claimed

\* C10 (lifecycle): every change of an issue's labels is ready -> in_progress,
\* in_progress -> completed or in_progress -> blocked.
LegalTransitions ==
    { << { Label("ready") }, { Label("in_progress") } >>,
      << { Label("in_progress") }, { Label("completed") } >>,
      << { Label("in_progress") }, { Label("blocked") } >> }

C10_Lifecycle ==
    [][ \A n \in Issues :
          labels'[n] # labels[n] => << labels[n], labels'[n] >> \in LegalTransitions
      ]_vars

Ended == { "stopped", "done", "crashed", "start_failed" }

\* C11 (step order): within a cycle that is neither stopped nor failing, the
\* steps follow one another in the order discover, dedup-filter,
\* detect-patterns, prioritize, build-report (with the saving of the store),
\* generate-tasks, publish-tasks, fetch-ready-work, select-best-task,
\* persist-result; publish-tasks is skipped exactly when no generated task has
\* priority high or medium, select-best-task exactly when the fetched list is
\* empty, and no other step is skipped.
C11_StepOrder ==
    [][ (pc \in InFlight /\ pc' \notin { "stopped", "except", "crashed" }) =>
          /\ pc = "discover" => pc' = "dedup"
          /\ pc = "dedup" => pc' = "detect"
          /\ pc = "detect" => pc' = "prioritize"
          /\ pc = "prioritize" => pc' = "report"
          /\ pc = "report" => pc' = "save"
          /\ pc = "save" => pc' \in { "save_write", "generate" }
          /\ pc = "save_write" => pc' = "generate"
          /\ pc = "generate" =>
                 pc' = IF \E i \in DOMAIN potential_tasks' :
                              potential_tasks'[i].priority \in { "high", "medium" }
                       THEN "publish" ELSE "fetch"
          /\ pc = "publish" => pc' = "fetch"
          /\ pc = "fetch" => pc' = IF ready_tasks' # << >> THEN "select" ELSE "result"
          /\ pc = "select" => pc' = "result"
          /\ pc = "result" => pc' = "store"
          /\ pc = "store" => pc' = "sleep"
      ]_vars

\* C12 (every completed cycle is logged): once a cycle has completed, in
\* single-cycle or in continuous mode, the cycle log holds a record with that
\* cycle's result.
C12_EveryCyclePersisted ==
    pc \in { "done", "sleep" } =>
        \E f \in cycle_files : f.number = cycle_count /\ f.result = cycle_result

\* C13 (append-only log keyed by increasing cycle number): no step removes or
\* alters a stored record, and every record a step adds has a cycle number
\* greater than that of every record stored before.
C13_AppendOnlyLog ==
    [][ /\ \A f \in cycle_files : f \in cycle_files'
        /\ \A f \in cycle_files' \ cycle_files :
               \A g \in cycle_files : f.number > g.number
      ]_vars

\* C14 (collaborator failures never propagate): no failure of a discovery fetch
\* or of the ready-work listing leaves the cycle as an exception.
C14_NoCollaboratorFailurePropagates == pc \notin { "except", "crashed" }

\* C15 (a failed save of the store is not fatal): when save_seen_items fails,
\* the monitoring cycle goes on to return its report, which is the report of
\* the in-memory state, and the in-memory store keeps the ids of this cycle's
\* new items.
C15_PersistFailureNonFatal ==
    [][ (pc \in { "save", "save_write" } /\ faults' # faults) =>
          /\ pc' = "generate"
          /\ report' = report
          /\ report = generate_learning_report(learning_queue, patterns_detected)
          /\ seen_items' = seen_items
          /\ Ids(new_items) \subseteq seen_items'
      ]_vars

\* the write of the store failed in a cycle that found new items
C15_Witness ==
    /\ pc = "generate" /\ seen_file.state \in { "empty", "partial" }
    /\ new_items # << >> /\ report.new_items > 0

\* C16 (first run): a process that starts while seen_items.json does not exist
\* starts with the empty store and does not fail.
C16_LoadAbsentIsEmpty ==
    /\ seen_file.state = "absent" => (pc # "start_failed" /\ seen_items = {})
    /\ [][ (pc \in Ended /\ seen_file.state = "absent") =>
             (pc' # "start_failed" /\ (pc' \notin Ended => seen_items' = {})) ]_vars

\* a later process started while the file was still absent
C16_Witness ==
    /\ pc \in { "loop", "main" } /\ seen_file.state = "absent"
    /\ total_cycles >= 1 /\ cycle_count = 0 /\ cycle_result = NoResult

\* C17 (persistence defects only degrade durability): no state of the store
\* file or of the cycle log keeps a process from running its cycles.
C17_PersistenceDefectsNonFatal == pc # "start_failed"

\* C18 (patterns are cycle-local): every member of every pattern of the current
\* cycle is one of this cycle's new items, and its id was not in the store
\* before this cycle's dedup filter ran.
C18_PatternsCycleLocal ==
    \A i \in DOMAIN patterns : \A j \in DOMAIN patterns[i].items :
        /\ patterns[i].items[j] \in Range(new_items)
        /\ patterns[i].items[j].id \notin deduped_raw.before

\* in its second cycle the process finds a new repository sharing the themes of
\* a paper seen in the first cycle, and no pattern joins the two
C18_Witness ==
    /\ pc = "prioritize" /\ cycle_count = 2 /\ Len(new_items) = 1
    /\ generate_id("arxiv", "autonomous AI systems") \in deduped_raw.before
    /\ "autonomous" \in Range(Keywords(new_items[1]))
    /\ patterns = << >>

\* C19 (pattern threshold): for every batch and every theme, the detector emits
\* a pattern for the theme exactly when at least two items of the batch match
\* the theme and those items have at least two distinct types; the pattern
\* then holds exactly the matching items and their types.
Matching(items, theme) == { i \in DOMAIN items : theme \in Range(Keywords(items[i])) }

TypesOf(items, idx) == { items[i].type : i \in idx }

Emitted(theme) == { i \in DOMAIN patterns : patterns[i].theme = theme }

C19_PatternThreshold ==
    pc = "detected" =>
        \A theme \in Range(important_terms) :
            IF /\ Cardinality(Matching(new_items, theme)) >= 2
               /\ Cardinality(TypesOf(new_items, Matching(new_items, theme))) >= 2
            THEN /\ Cardinality(Emitted(theme)) = 1
                 /\ \A i \in Emitted(theme) :
                      /\ patterns[i].sources = TypesOf(new_items, Matching(new_items, theme))
                      /\ Range(patterns[i].items)
                             = { new_items[k] : k \in Matching(new_items, theme) }
            ELSE Emitted(theme) = {}

\* two repositories share "governance" and yield no pattern, while "ai" spans a
\* repository and a paper and yields one
C19_Witness ==
    /\ pc = "detected"
    /\ Cardinality(Matching(new_items, "governance")) = 2
    /\ Cardinality(TypesOf(new_items, Matching(new_items, "governance"))) = 1
    /\ Emitted("governance") = {}
    /\ Emitted("ai") # {}

AfterPrioritize == { "report", "save", "save_write", "generate", "publish", "fetch",
                     "select", "result", "store", "sleep", "done" }

\* C20 (pattern bonus): every pattern of the cycle scores at least 2 in the
\* prioritizer and, once the prioritizer has run, is in the learning queue.
C20_PatternBonus ==
    \A i \in DOMAIN patterns :
        /\ Score(patterns[i]) >= 2
        /\ pc \in AfterPrioritize => patterns[i] \in Range(learning_queue)

\* what the prioritizer is handed
Entries == new_items \o patterns

IsPattern(entry) == "pattern_type" \in DOMAIN entry

Mentions(entry, terms) ==
    \E term \in terms : Contains(Lower(ItemText(entry)), Chunks(term))

\* C21 (scoring formula): the score of every entry handed to the prioritizer is
\* 5 if its text contains a mission-critical phrase, plus 3 if it contains a
\* mid-priority phrase, plus 1 if it contains a general-interest term, plus 2
\* if the entry is a pattern.
C21_ScoreFormula ==
    pc = "prioritized" => \A i \in DOMAIN Entries :
        Score(Entries[i])
            = (IF Mentions(Entries[i], HighPriorityTerms) THEN 5 ELSE 0)
              + (IF Mentions(Entries[i], MediumPriorityTerms) THEN 3 ELSE 0)
              + (IF Mentions(Entries[i], GeneralTerms) THEN 1 ELSE 0)
              + (IF IsPattern(Entries[i]) THEN 2 ELSE 0)

ScoreValues == 1..11

WithScore(seq, k) == SelectSeq(seq, LAMBDA entry : Score(entry) = k)

\* C22 (prioritizer output): the prioritizer returns exactly the entries of its
\* input whose score is positive, in descending order of score, entries of equal
\* score in their input order; an entry scoring 0 is never returned.
C22_PrioritizerOutput ==
    pc = "prioritized" =>
        /\ \A k \in ScoreValues : WithScore(learning_queue, k) = WithScore(Entries, k)
        /\ \A i \in DOMAIN learning_queue : Score(learning_queue[i]) \in ScoreValues
        /\ \A i, j \in DOMAIN learning_queue :
               i < j => Score(learning_queue[i]) >= Score(learning_queue[j])

\* an input with an entry scoring 0, a lower score ahead of a higher one, and
\* two different entries of equal score
C22_Witness ==
    /\ pc = "prioritized"
    /\ \E i \in DOMAIN Entries : Score(Entries[i]) = 0
    /\ \E i, j \in DOMAIN Entries :
           i < j /\ 0 < Score(Entries[i]) /\ Score(Entries[i]) < Score(Entries[j])
    /\ \E i, j \in DOMAIN learning_queue :
           /\ i < j
           /\ learning_queue[i] # learning_queue[j]
           /\ Score(learning_queue[i]) = Score(learning_queue[j])

\* the entry with a phrase added to its description
WithPhrase(entry, phrase) ==
    ("description" :> (Get(entry, "description") \o << " " >> \o Chunks(phrase)))
        @@ entry

\* C23 (score monotonicity): an entry whose text additionally contains a
\* mission-critical phrase scores at least as much as the entry without it.
C23_ScoreMonotone ==
    \A i \in DOMAIN Entries : \A phrase \in HighPriorityTerms :
        ~Mentions(Entries[i], HighPriorityTerms)
            => Score(WithPhrase(Entries[i], phrase)) >= Score(Entries[i])

\* an entry with a mid-priority phrase only gains the phrase's 5 and the 1 of
\* the general term inside the phrase
C23_Witness ==
    /\ pc = "prioritized"
    /\ \E i \in DOMAIN Entries : \E phrase \in HighPriorityTerms :
           /\ Score(Entries[i]) = 3
           /\ Entries[i] \in Range(learning_queue)
           /\ Score(WithPhrase(Entries[i], phrase)) = 9

TasksOfType(type) == SelectSeq(potential_tasks, LAMBDA task : task.type = type)

\* positions among the first two top themes that hold an actionable theme
FocusPositions ==
    { i \in 1..2 : /\ i <= Len(report.top_themes)
                   /\ report.top_themes[i] \in { "ai", "autonomous", "governance" } }

\* the theme a deep-dive task is about
ThemeOf(task) == task.title[2]

\* C24 (task generation rules): from a report the generator produces one
\* research task of priority medium exactly when patterns_detected > 0; one
\* learning task for each of the first two top themes that is ai, autonomous or
\* governance, of priority high for autonomous and medium otherwise; one
\* synthesis task of priority high exactly when there are at least two top
\* themes; and no other task.
C24_TaskRules ==
    pc = "tasks" =>
        /\ Len(TasksOfType("research")) = IF report.patterns_detected > 0 THEN 1 ELSE 0
        /\ \A task \in Range(TasksOfType("research")) : task.priority = "medium"
        /\ Len(TasksOfType("learning")) = Cardinality(FocusPositions)
        /\ \A i \in FocusPositions :
               \E task \in Range(TasksOfType("learning")) :
                   ThemeOf(task) = report.top_themes[i]
        /\ \A task \in Range(TasksOfType("learning")) :
               /\ \E i \in FocusPositions : ThemeOf(task) = report.top_themes[i]
               /\ task.priority = IF ThemeOf(task) = "autonomous" THEN "high" ELSE "medium"
        /\ Len(TasksOfType("synthesis")) = IF Len(report.top_themes) >= 2 THEN 1 ELSE 0
        /\ \A task \in Range(TasksOfType("synthesis")) : task.priority = "high"
        /\ \A task \in Range(potential_tasks) :
               task.type \in { "research", "learning", "synthesis" }

\* the first top theme is not actionable, the second is, and the third
\* (autonomous) is past the first two: research, one deep dive, synthesis
C24_Witness ==
    /\ pc = "tasks"
    /\ report.patterns_detected = 1
    /\ report.top_themes = << "distributed", "ai", "autonomous" >>
    /\ Len(potential_tasks) = 3
    /\ Len(TasksOfType("learning")) = 1

TypeRank(type) ==
    CASE type = "research" -> 1 [] type = "learning" -> 2 [] OTHER -> 3

\* C25 (task order): the research task comes first, then the learning tasks in
\* the order of their themes in top_themes, then the synthesis task; for
\* top_themes = [autonomous, governance] and patterns_detected = 2 the list is
\* research (medium), learning autonomous (high), learning governance (medium),
\* synthesis (high).
C25_TaskOrder ==
    pc = "tasks" =>
        /\ \A i, j \in DOMAIN potential_tasks :
               i < j => TypeRank(potential_tasks[i].type) <= TypeRank(potential_tasks[j].type)
        /\ [i \in DOMAIN TasksOfType("learning") |-> ThemeOf(TasksOfType("learning")[i])]
               = SelectSeq(SubSeq(report.top_themes, 1,
                                  IF Len(report.top_themes) < 2
                                  THEN Len(report.top_themes) ELSE 2),
                           LAMBDA theme : theme \in { "ai", "autonomous", "governance" })
        /\ (report.top_themes = << "autonomous", "governance" >>
                /\ report.patterns_detected = 2)
               => /\ [i \in DOMAIN potential_tasks |-> potential_tasks[i].type]
                      = << "research", "learning", "learning", "synthesis" >>
                  /\ [i \in DOMAIN potential_tasks |-> potential_tasks[i].priority]
                      = << "medium", "high", "medium", "high" >>
                  /\ ThemeOf(potential_tasks[2]) = "autonomous"
                  /\ ThemeOf(potential_tasks[3]) = "governance"

C25_Witness ==
    /\ pc = "tasks"
    /\ report.top_themes = << "autonomous", "governance" >>
    /\ report.patterns_detected = 2
    /\ Len(potential_tasks) = 4

Requirements(task) == parse_task_requirements(task.body)

\* the score of a work item as the selection rule states it
RuleScore(task) ==
    (CASE Requirements(task).priority = "high" -> 3
       [] Requirements(task).priority = "medium" -> 2
       [] OTHER -> 1)
    + (IF Len(Requirements(task).dependencies) = 0 THEN 2 ELSE 0)
    + (IF Len(Requirements(task).success_criteria) > 0 THEN 1 ELSE 0)

\* C26 (selection): select_best_task returns none for an empty list, and
\* otherwise an element of the list whose score (3 for priority high, 2 for
\* medium, 1 for anything else, plus 2 without dependencies, plus 1 with
\* success criteria) is maximal in the list.
C26_SelectsMaximal ==
    pc = "selected" =>
        IF ready_tasks = << >> THEN best_task = None
        ELSE /\ \E i \in DOMAIN ready_tasks : best_task = ready_tasks[i]
             /\ \A i \in DOMAIN ready_tasks : RuleScore(best_task) >= RuleScore(ready_tasks[i])

\* the best item is not the first of the list
C26_Witness ==
    /\ pc = "selected"
    /\ Len(ready_tasks) >= 2
    /\ RuleScore(ready_tasks[1]) < RuleScore(best_task)
    /\ best_task \in Range(ready_tasks)

\* C27 (tie-break): among the items of maximal score, select_best_task returns
\* the one that comes first in the list.
C27_FirstOfTies ==
    (pc = "selected" /\ ready_tasks # << >>) =>
        \E i \in DOMAIN ready_tasks :
            /\ best_task = ready_tasks[i]
            /\ \A j \in DOMAIN ready_tasks :
                   /\ RuleScore(ready_tasks[j]) <= RuleScore(ready_tasks[i])
                   /\ j < i => RuleScore(ready_tasks[j]) < RuleScore(ready_tasks[i])

\* two different items of equal, maximal score: the first one is returned
C27_Witness ==
    /\ pc = "selected"
    /\ Len(ready_tasks) >= 2
    /\ ready_tasks[1] # ready_tasks[2]
    /\ RuleScore(ready_tasks[1]) = RuleScore(ready_tasks[2])
    /\ \A j \in DOMAIN ready_tasks : RuleScore(ready_tasks[j]) <= RuleScore(ready_tasks[1])
    /\ best_task = ready_tasks[1]

\* some occurrence of the label is followed, after optional whitespace, by a word
HasValue(body, label) ==
    \E i \in DOMAIN body : \E j \in (i + 1)..Len(body) :
        /\ LowerChunk(body[i]) = label
        /\ \A k \in (i + 1)..(j - 1) : body[k] \in { " ", "\n" }
        /\ WordPrefix(body[j]) # ""

\* C28 (parse defects): for every body of a listed work item the parser
\* returns a result, with type "general" when the body has no Type: label
\* followed by a word and priority "medium" when it has no Priority: label
\* followed by a word; the selection then returns one of the listed items.
C28_ParseDefaults ==
    pc = "selected" =>
        /\ \A i \in DOMAIN ready_tasks :
               /\ DOMAIN Requirements(ready_tasks[i])
                      = { "type", "priority", "dependencies", "success_criteria" }
               /\ ~HasValue(ready_tasks[i].body, "type:")
                      => Requirements(ready_tasks[i]).type = "general"
               /\ ~HasValue(ready_tasks[i].body, "priority:")
                      => Requirements(ready_tasks[i]).priority = "medium"
        /\ ready_tasks # << >> => best_task \in Range(ready_tasks)

\* an empty body and a body whose labels are followed by punctuation
C28_Witness ==
    /\ pc = "selected"
    /\ \E i \in DOMAIN ready_tasks : ready_tasks[i].body = << >>
    /\ \E i \in DOMAIN ready_tasks :
           /\ \E k \in DOMAIN ready_tasks[i].body : ready_tasks[i].body[k] = "Priority:"
           /\ ~HasValue(ready_tasks[i].body, "priority:")
           /\ Requirements(ready_tasks[i]).priority = "medium"
    /\ best_task \in Range(ready_tasks)

\* a line that ends with the heading
HeadingLine(line, label) ==
    \E k \in DOMAIN line :
        /\ LowerChunk(line[k]) = label
        /\ \A m \in (k + 1)..Len(line) : line[m] = " "

\* a line prefixed with - or *
IsBulletLine(line) == line # << >> /\ Head(line) \in { "-", "*" }

\* the run of bullet lines right after the heading, marker and whitespace stripped
BulletRun(body, label) ==
    LET lines == Split(body)
        heads == { h \in 1..(Len(lines) - 1) :
                     HeadingLine(lines[h], label) /\ IsBulletLine(lines[h + 1]) }
    IN IF heads = {} THEN << >>
       ELSE LET h == MinOf(heads)
                e == MaxOf({ x \in (h + 1)..Len(lines) :
                               \A y \in (h + 1)..x : IsBulletLine(lines[y]) })
            IN [i \in 1..(e - h) |-> Strip(Tail(lines[h + i]))]

\* C29 (bullet blocks): for every body of a listed work item, dependencies and
\* success_criteria are exactly the contiguous run of bullet lines right after
\* the respective heading, in order, each without its marker and surrounding
\* whitespace, and empty when there is no such run; the body with Priority:
\* High, two dependency bullets and one criterion parses to high, two
\* dependencies in order and one criterion.
C29_BulletBlocks ==
    pc = "selected" =>
        \A i \in DOMAIN ready_tasks :
            /\ Requirements(ready_tasks[i]).dependencies
                   = BulletRun(ready_tasks[i].body, "dependencies:")
            /\ Requirements(ready_tasks[i]).success_criteria
                   = BulletRun(ready_tasks[i].body, "success criteria:")
            /\ ready_tasks[i].body = IssueBodies[1]
                   => /\ Requirements(ready_tasks[i]).priority = "high"
                      /\ Requirements(ready_tasks[i]).dependencies
                             = << << "setup" >>, << "tests" >> >>
                      /\ Requirements(ready_tasks[i]).success_criteria = << << "done" >> >>

\* when the record shown in an entry of the listing was stored
StoredAt(info) == info.file[2]

\* C30 (recent cycles): whatever cycles were stored, also past cycle 999 and
\* after a restart set the counter back, get_recent_cycles lists the stored
\* records (up to its limit) most recent first.
C30_MostRecentFirst ==
    pc = "viewed" =>
        /\ Len(recent_cycles) = IF Cardinality(cycle_files) < RecentLimit
                                THEN Cardinality(cycle_files) ELSE RecentLimit
        /\ \A i \in DOMAIN recent_cycles : \E f \in cycle_files : f.name = recent_cycles[i].file
        /\ \A i, j \in DOMAIN recent_cycles :
               i < j => StoredAt(recent_cycles[i]) > StoredAt(recent_cycles[j])

\* C31 (cumulative report): within one monitor instance the report of a cycle
\* never shows fewer new_items or patterns_detected than the report before it,
\* and a cycle that finds no new item reports the same new_items,
\* patterns_detected and top_themes as the report before it.
C31_CumulativeReport ==
    [][ (pc = "report" /\ pc' = "save") =>
            /\ report'.new_items >= last_report.new_items
            /\ report'.patterns_detected >= last_report.patterns_detected
            /\ new_items = << >> =>
                   /\ report'.new_items = last_report.new_items
                   /\ report'.patterns_detected = last_report.patterns_detected
                   /\ report'.top_themes = last_report.top_themes ]_vars

\* a second cycle that found nothing new and still reports the items of the first
C31_Witness ==
    /\ pc = "save"
    /\ cycle_count = 2
    /\ new_items = << >>
    /\ report.new_items > 0
    /\ report.top_themes # << >>

\* C32 (no rollback of marked ids): within a process the dedup store never loses
\* an id, whatever step fails; when a cycle is left by a failure the ids of its
\* new items are in the store; every completed write of the dedup file holds
\* the whole store, the ids of the cycle's new items among them; and no item
\* whose id is in the store when the dedup filter starts comes out of it as new.
C32_MarkedIdsStay ==
    [][ /\ SameProcess => seen_items \subseteq seen_items'
        /\ pc' \in { "except", "crashed" } => Ids(new_items') \subseteq seen_items'
        /\ (seen_file' # seen_file /\ seen_file'.state = "valid") =>
               /\ seen_file'.ids = seen_items
               /\ Ids(new_items) \subseteq seen_file'.ids
        /\ (pc = "dedup" /\ pc' = "detect") => Ids(new_items') \cap seen_items = {} ]_vars

\* the cycle after a failed one, which stored no result: the repository the
\* failed cycle marked is listed again and is not new
C32_Witness ==
    /\ pc = "detect"
    /\ last_status = "failed"
    /\ cycle_files = {}
    /\ raw_batch # << >>
    /\ Ids(raw_batch) \subseteq deduped_raw.before
    /\ new_items = << >>
    /\ Ids(raw_batch) \subseteq seen_file.ids

\* positions of the batch holding the first occurrence of an id not yet stored
FirstNew(items, seen) ==
    { i \in DOMAIN items :
        /\ items[i].id \notin seen
        /\ \A j \in 1..(i - 1) : items[j].id # items[i].id }

\* C33 (distinct new items): when the dedup filter ends, the new items are the
\* first occurrences, in order, of the ids of the batch that were not in the
\* store, their ids are pairwise distinct, and all of them are in the store.
C33_DistinctNewItems ==
    pc = "detect" =>
        /\ \A i, j \in DOMAIN new_items : i # j => new_items[i].id # new_items[j].id
        /\ Ids(new_items) \subseteq seen_items
        /\ Len(new_items) = Cardinality(FirstNew(all_items, deduped_raw.before))
        /\ \A i \in FirstNew(all_items, deduped_raw.before) : all_items[i] \in Range(new_items)
        /\ \A i, j \in DOMAIN new_items : i < j =>
               \E a, b \in FirstNew(all_items, deduped_raw.before) :
                   a < b /\ all_items[a] = new_items[i] /\ all_items[b] = new_items[j]

\* the batch lists one repository twice and it is new once
C33_Witness ==
    /\ pc = "detect"
    /\ \E i, j \in DOMAIN all_items :
           /\ i < j
           /\ all_items[i].id = all_items[j].id
           /\ all_items[i].id \notin deduped_raw.before
           /\ Cardinality({ k \in DOMAIN new_items : new_items[k].id = all_items[i].id }) = 1
    /\ Len(new_items) < Len(all_items)

\* the tasks create_github_issues was called with, body i belonging to task i
Published == HighValueTasks(potential_tasks)

\* C34 (publish/parse round trip): the body create_github_issues formats for a
\* task parses to the task's own type and priority and to a non-empty list of
\* success criteria, and of two published tasks, one of priority high and one
\* of priority medium, the first gets the higher score of select_best_task.
C34_RoundTrip ==
    pc = "published" =>
        /\ \A i \in DOMAIN issue_bodies :
               /\ parse_task_requirements(issue_bodies[i]).type = Published[i].type
               /\ parse_task_requirements(issue_bodies[i]).priority = Published[i].priority
               /\ parse_task_requirements(issue_bodies[i]).success_criteria # << >>
        /\ \A i, j \in DOMAIN issue_bodies :
               (Published[i].priority = "high" /\ Published[j].priority = "medium") =>
                   TaskScore([ number |-> i, body |-> issue_bodies[i] ])
                       > TaskScore([ number |-> j, body |-> issue_bodies[j] ])

====
